---- MODULE Spec2Model ----
(***************************************************************************)
(* Model of the MQTT endpoint session of drogue-cloud                      *)
(* (mqtt-endpoint/src/service/session/mod.rs): identity resolution with    *)
(* the LRU authorization cache, publish forwarding, inbox subscription     *)
(* registry, unsubscribe and close.                                        *)
(*                                                                         *)
(* Strings are sequences of one-character strings, so that splitting a     *)
(* topic on '/' is computed and not assumed.                               *)
(***************************************************************************)
EXTENDS Integers, Sequences, FiniteSets, TLC

\* ------------------------------------------------------------------ bounds

\* Number of concurrently running handler invocations (async tasks).
NTasks == 2
\* Number of publishes started in one behaviour of SpecPub.
MaxPubOps == 3
\* Number of subscribe, unsubscribe and closed calls in one behaviour of SpecInbox.
MaxInboxOps == 2
\* Longest topic, in segments, in SpecTopics.
MaxSegs == 4
\* Longest subscribe / unsubscribe batch.
MaxBatch == 2
\* Number of publishes to named (non-filler) devices in SpecLRU.
MaxNamedOps == 2
\* SpecLRU publishes to named devices while the cache is empty and while it is
\* within this many entries of being full.
LruWindow == 2
\* Number of publishes in one behaviour of SpecShapes.
MaxShapeOps == 2
\* Number of handler invocations, of any kind, in one behaviour of SpecFair.
MaxAllOps == 2

\* CLruCache::new(NonZeroUsize::new(128).unwrap())
CacheCapacity == 128
\* Number of filler devices of SpecLRU, enough to fill the cache.
NFillers == CacheCapacity

Tasks == 1 .. NTasks

\* ----------------------------------------------------------------- strings

Slash == "/"

\* "command", "inbox" and the other literals of the topic grammar.
StrCommand == <<"c", "o", "m", "m", "a", "n", "d">>
StrInbox == <<"i", "n", "b", "o", "x">>
StrHash == <<"#">>
StrPlus == <<"+">>
StrEmpty == <<>>
StrD2 == <<"d", "2">>
StrD3 == <<"d", "3">>
StrTele == <<"t">>

RECURSIVE Join(_)
\* segments joined with '/': the topic string a client sends
Join(segs) ==
    IF Len(segs) = 0 THEN <<>>
    ELSE IF Len(segs) = 1 THEN segs[1]
    ELSE segs[1] \o <<Slash>> \o Join(Tail(segs))

RECURSIVE SplitFrom(_, _, _)
\* str::split('/') scanning s from position i with the current segment cur
SplitFrom(s, i, cur) ==
    IF i > Len(s) THEN <<cur>>
    ELSE IF s[i] = Slash THEN <<cur>> \o SplitFrom(s, i + 1, <<>>)
    ELSE SplitFrom(s, i + 1, Append(cur, s[i]))

\* topic.split('/').collect::<Vec<_>>()
Split(s) == SplitFrom(s, 1, <<>>)

DigitChars == <<"0", "1", "2", "3", "4", "5", "6", "7", "8", "9">>

RECURSIVE Digits(_)
\* decimal digits of a natural number
Digits(n) ==
    IF n < 10 THEN <<DigitChars[n + 1]>>
    ELSE Digits(n \div 10) \o <<DigitChars[(n % 10) + 1]>>

\* the i-th filler device name, "f<i>"
FillerName(i) == <<"f">> \o Digits(i)

\* ------------------------------------------------------------------ inputs

TopicAll == Join(<<StrCommand, StrInbox, StrHash>>)
TopicPlus == Join(<<StrCommand, StrInbox, StrPlus, StrHash>>)
TopicSelf == Join(<<StrCommand, StrInbox, StrEmpty, StrHash>>)
TopicD2 == Join(<<StrCommand, StrInbox, StrD2, StrHash>>)
TopicNoHash == Join(<<StrCommand, StrInbox, StrD2>>)

\* topic filters a client subscribes to or unsubscribes from in SpecInbox
SubTopics == {TopicAll, TopicD2, TopicNoHash}

Batches == UNION {[1 .. n -> SubTopics] : n \in 1 .. MaxBatch}

\* the segments topics are built from in SpecTopics
Segments == {StrCommand, StrInbox, StrHash, StrPlus, StrEmpty, StrD2}

\* every topic of at most MaxSegs segments over Segments
AllTopics == {Join(s) : s \in UNION {[1 .. n -> Segments] : n \in 1 .. MaxSegs}}

\* topics a client publishes to
PubTopics == {StrTele, Join(<<StrTele, StrD2>>), Join(<<StrTele, StrD3>>),
              Join(<<StrTele, StrD2, StrD3>>)}

FillerTopic(i) == Join(<<StrTele, FillerName(i)>>)

\* the segments publish topics are built from in SpecShapes
ShapeSegments == {StrTele, StrEmpty, StrD2}

\* every publish topic of at most MaxSegs segments over ShapeSegments
ShapeTopics ==
    {Join(s) : s \in UNION {[1 .. n -> ShapeSegments] : n \in 1 .. MaxSegs}}

\* Split (and Classify, below) of every topic that is an input, computed once
InputTopics == SubTopics \cup AllTopics
PublishInputs ==
    PubTopics \cup {FillerTopic(i) : i \in 1 .. NFillers} \cup ShapeTopics
SplitOf[topic \in PublishInputs] == Split(topic)
\* ------------------------------------------------------------- identities

\* self.device.metadata.name of the authenticated device
SelfDevice == <<"d", "1">>

\* Option<Arc<Device>>
NoDevice == [some |-> FALSE, name |-> <<>>]
SomeDevice(n) == [some |-> TRUE, name |-> n]

\* ------------------------------------------------------------- LRU cache
\* The cache is the sequence of its entries, most recently used first.

\* the position of key k in the cache c, 0 when it is not cached
IndexOf(c, k) ==
    LET at == {i \in 1 .. Len(c) : c[i].key = k}
    IN  IF at = {} THEN 0 ELSE CHOOSE i \in at : \A j \in at : i <= j

HasKey(c, k) == IndexOf(c, k) # 0

CacheKeys(c) == {c[i].key : i \in 1 .. Len(c)}

EntryOf(c, k) == c[IndexOf(c, k)].entry

Without(c, i) == SubSeq(c, 1, i - 1) \o SubSeq(c, i + 1, Len(c))

\* CLruCache::get without the promotion to most recently used
CLruGetNoPromote(c, k) == c

\* CLruCache::get: a hit moves the entry to the front
CLruGet(c, k) ==
    LET i == IndexOf(c, k)
    IN  IF i = 0 THEN c ELSE <<c[i]>> \o Without(c, i)

\* CLruCache::put: insert at the front, evicting the back entry when full
CLruPut(c, k, e) ==
    LET i == IndexOf(c, k)
        new == [key |-> k, entry |-> e]
    IN  IF i # 0 THEN <<new>> \o Without(c, i)
        ELSE IF Len(c) >= CacheCapacity THEN <<new>> \o SubSeq(c, 1, Len(c) - 1)
        ELSE <<new>> \o c

\* ------------------------------------------------------------------ state

VARIABLES
    pc,            \* per task: where its handler invocation is suspended
    op,            \* per task: the locals of its handler invocation
    device_cache,  \* Session::device_cache, most recently used first
    cache_lock,    \* holder of the device_cache mutex, 0 when free
    inbox_reader,  \* Session::inbox_reader: topic filter string -> relay id
    reader_lock,   \* holder of the inbox_reader mutex, 0 when free
    relays,        \* every InboxSubscription created so far, by id
    auth_calls,    \* history: number of authorize_as calls per proxied name
    authz_outcome, \* history: last definitive authorizer outcome per name
    last_use,      \* history: time of the last use of each cached key
    use_clock,     \* history: number of cache uses so far
    evicted,       \* history: keys that were evicted from the cache
    n_ops,         \* number of handler invocations started
    n_fill,        \* number of filler publishes started (SpecLRU)
    closed_called, \* closed() was invoked
    ev             \* history: the step just taken by a subscription handler

vars == <<pc, op, device_cache, cache_lock, inbox_reader, reader_lock, relays,
          auth_calls, authz_outcome, last_use, use_clock, evicted, n_ops,
          n_fill, closed_called, ev>>

cacheVars == <<device_cache, cache_lock, auth_calls, authz_outcome, last_use,
               use_clock, evicted>>
inboxVars == <<inbox_reader, reader_lock, relays>>

\* PublishError and Ok(())
Pending == [tag |-> "Pending", detail |-> ""]
ResOk == [tag |-> "Ok", detail |-> ""]
TopicNameInvalid == [tag |-> "TopicNameInvalid", detail |-> ""]
NotAuthorized == [tag |-> "NotAuthorized", detail |-> ""]
UnspecifiedError == [tag |-> "UnspecifiedError", detail |-> ""]
QuotaExceeded == [tag |-> "QuotaExceeded", detail |-> ""]
InternalError(text) == [tag |-> "InternalError", detail |-> text]

NoMsg == [channel |-> <<>>, device_id |-> <<>>, sender_id |-> <<>>]

\* The locals of one handler invocation, with the history of what it did.
DefaultOp ==
    [kind |-> "none", topic |-> <<>>, channel |-> <<>>, as_device |-> <<>>,
     device |-> NoDevice, result |-> Pending, auth_calls |-> 0,
     bus_calls |-> 0, hit |-> FALSE, race |-> {}, msg |-> NoMsg,
     authz |-> "none", bus |-> [kind |-> "none", text |-> ""],
     n_left |-> 0, cur |-> <<>>, closing |-> 0, drained |-> {},
     removed |-> {}, found |-> {}]

Init ==
    /\ pc = [t \in Tasks |-> "idle"]
    /\ op = [t \in Tasks |-> DefaultOp]
    /\ device_cache = <<>>
    /\ cache_lock = 0
    /\ inbox_reader = [x \in {} |-> 0]
    /\ reader_lock = 0
    /\ relays = [x \in {} |-> 0]
    /\ auth_calls = <<>>
    /\ authz_outcome = <<>>
    /\ last_use = <<>>
    /\ use_clock = 0
    /\ evicted = {}
    /\ n_ops = 0
    /\ n_fill = 0
    /\ closed_called = FALSE
    /\ ev = [type |-> "none", task |-> 0, topics |-> <<>>, acks |-> <<>>,
             relay |-> 0, result |-> Pending, closed |-> {}, found |-> {}]

\* function f with key k set to v (k may be new)
Put(f, k, v) == (k :> v) @@ f
Restrict(f, S) == [k \in (DOMAIN f) \cap S |-> f[k]]
Count(f, k) == IF k \in DOMAIN f THEN f[k] ELSE 0

\* a task can take a new handler invocation
Free(t) == pc[t] \in {"idle", "done"}

\* history: t starts a new invocation; in the race sets of the others the
\* invocation it leaves stays counted, as 0, a publish that is gone
Forget(o, t) ==
    [u \in Tasks |->
        [o[u] EXCEPT !.race = IF t \in @ THEN (@ \ {t}) \cup {0} ELSE @]]

\* ---------------------------------------------------------------- publish

\* GatewayOutcome of the authorizer, or its transport error
AuthPass(n) == [kind |-> "Pass", as |-> n]
AuthOther == [kind |-> "Other", as |-> <<>>]
AuthErr == [kind |-> "Err", as |-> <<>>]

\* what the authorizer may answer for a requested name
AuthOutcomes(name) == {AuthPass(name), AuthPass(StrD3), AuthOther, AuthErr}

\* PublishOutcome of the downstream sender, or its error
BusOutcomes ==
    {[kind |-> "Accepted", text |-> ""], [kind |-> "Rejected", text |-> ""],
     [kind |-> "QueueFull", text |-> ""], [kind |-> "Err", text |-> "bus down"],
     [kind |-> "Err", text |-> "timeout"]}

\* a cache entry that stores every outcome as a denial
CacheEntryAlwaysDenied(outcome) == NoDevice

\* the DeviceCacheEntry built from a definitive outcome
CacheEntryFor(outcome) ==
    IF outcome.kind = "Pass" THEN SomeDevice(outcome.as) ELSE NoDevice

\* the mapping with Rejected and QueueFull swapped
PublishResultSwapped(outcome) ==
    CASE outcome.kind = "Accepted" -> ResOk
      [] outcome.kind = "Rejected" -> QuotaExceeded
      [] outcome.kind = "QueueFull" -> UnspecifiedError
      [] OTHER -> InternalError(outcome.text)

\* the result of publish from the result of sender.publish
PublishResult(outcome) ==
    CASE outcome.kind = "Accepted" -> ResOk
      [] outcome.kind = "Rejected" -> UnspecifiedError
      [] outcome.kind = "QueueFull" -> QuotaExceeded
      [] OTHER -> InternalError(outcome.text)

\* a sender::Publish that names the acting device as the sender too
ForwardSenderIsActing(o, channel, device) ==
    [o EXCEPT !.channel = channel, !.device = device,
              !.msg = [channel |-> channel, device_id |-> device.name,
                       sender_id |-> device.name],
              !.bus_calls = @ + 1]

\* sender::Publish built by publish; the call to sender.publish is issued
Forward(o, channel, device) ==
    [o EXCEPT !.channel = channel, !.device = device,
              !.msg = [channel |-> channel, device_id |-> device.name,
                       sender_id |-> SelfDevice],
              !.bus_calls = @ + 1]

\* the cache guard dropped before the authorizer is awaited
GuardDroppedBeforeCall(t) == 0

\* the cache guard of task t stays alive across authorize_as(..).await
GuardAcrossCall(t) == t

\* history: a use of key k of the cache c at the next clock tick
Touch(c, k) == Restrict(Put(last_use, k, use_clock + 1), CacheKeys(c))

\* a match without the [channel] arm
MatchTopicNoSelf(segs) == IF Len(segs) = 2 THEN "proxied" ELSE "invalid"

\* a match that takes the first two of two or more segments
MatchTopicPrefix(segs) == IF Len(segs) = 1 THEN "self" ELSE "proxied"

\* the match of eval_device on the split topic: [channel],
\* [channel, as_device] or anything else
MatchTopicArms(segs) ==
    IF Len(segs) = 1 THEN "self"
    ELSE IF Len(segs) = 2 THEN "proxied"
    ELSE "invalid"

\* publish up to its first suspension: the topic is split and matched
StartPublish(t, topic) ==
    /\ Free(t)
    /\ LET segs == SplitOf[topic]
           o == [DefaultOp EXCEPT !.kind = "publish", !.topic = topic]
           cleared == Forget(op, t)
           arm == MatchTopicArms(segs)
       IN  IF arm = "self"
           THEN /\ op' = [cleared EXCEPT ![t] =
                              Forward(o, segs[1], SomeDevice(SelfDevice))]
                /\ pc' = [pc EXCEPT ![t] = "bus"]
           ELSE IF arm = "proxied"
           THEN LET d == segs[2]
                    others == {u \in Tasks \ {t} :
                                  /\ op[u].kind = "publish"
                                  /\ pc[u] \in {"cache_lock", "authorize"}
                                  /\ op[u].as_device = d
                                  /\ ~HasKey(device_cache, d)}
                IN  /\ op' = [u \in Tasks |->
                                IF u = t
                                THEN [o EXCEPT !.channel = segs[1],
                                               !.as_device = d,
                                               !.race = others]
                                ELSE IF u \in others
                                THEN [cleared[u] EXCEPT !.race = @ \cup {t}]
                                ELSE cleared[u]]
                    /\ pc' = [pc EXCEPT ![t] = "cache_lock"]
           ELSE /\ op' = [cleared EXCEPT ![t] =
                              [o EXCEPT !.result = TopicNameInvalid]]
                /\ pc' = [pc EXCEPT ![t] = "done"]
    /\ UNCHANGED <<cacheVars, inboxVars, closed_called, ev>>

\* eval_device from the cache lock to the authorizer call or to its return
AcquireCacheLock(t) ==
    /\ pc[t] = "cache_lock"
    /\ cache_lock = 0
    /\ LET d == op[t].as_device
       IN  IF HasKey(device_cache, d)
           THEN LET e == EntryOf(device_cache, d)
                    c == CLruGet(device_cache, d)
                    o == [op[t] EXCEPT !.hit = TRUE]
                IN  /\ device_cache' = c
                    /\ last_use' = Touch(c, d)
                    /\ use_clock' = use_clock + 1
                    /\ cache_lock' = 0
                    /\ IF e.some
                       THEN /\ op' = [op EXCEPT ![t] =
                                         Forward(o, op[t].channel, e)]
                            /\ pc' = [pc EXCEPT ![t] = "bus"]
                       ELSE /\ op' = [op EXCEPT ![t] =
                                         [o EXCEPT !.result = NotAuthorized]]
                            /\ pc' = [pc EXCEPT ![t] = "done"]
                    /\ UNCHANGED <<auth_calls, authz_outcome, evicted>>
           ELSE /\ cache_lock' = GuardAcrossCall(t)
                /\ auth_calls' = Put(auth_calls, d, Count(auth_calls, d) + 1)
                /\ op' = [op EXCEPT ![t].auth_calls = @ + 1]
                /\ pc' = [pc EXCEPT ![t] = "authorize"]
                /\ UNCHANGED <<device_cache, authz_outcome, last_use,
                               use_clock, evicted>>
    /\ UNCHANGED <<inboxVars, n_ops, n_fill, closed_called, ev>>

\* an error of the call taken as one more outcome that is not Pass
TransportErrorIgnored(outcome) == FALSE

\* authorize_as(..).await is Err: `?` returns before the outcome is looked at
IsTransportError(outcome) == outcome.kind = "Err"

\* a guard that is leaked when the call failed
GuardKeptOnError(t, outcome) == IF outcome.kind = "Err" THEN t ELSE 0

\* the holder of the cache lock once eval_device is left after the call: the
\* guard is a local of the match arm and is dropped on `?`, on return Err and
\* on the Ok value alike
GuardAfterReturn(t, outcome) == 0

\* authorize_as returns; the outcome is cached and the lock released
AuthorizeReturn(t, outcome) ==
    /\ pc[t] = "authorize"
    /\ LET d == op[t].as_device
           o == [op[t] EXCEPT !.authz = outcome.kind]
       IN  IF IsTransportError(outcome)
           THEN /\ op' = [op EXCEPT ![t] = [o EXCEPT !.result =
                             InternalError("Failed to authorize device")]]
                /\ pc' = [pc EXCEPT ![t] = "done"]
                /\ UNCHANGED <<device_cache, authz_outcome, last_use,
                               use_clock, evicted>>
           ELSE LET e == CacheEntryFor(outcome)
                    c == CLruPut(device_cache, d, e)
                IN  /\ device_cache' = c
                    /\ authz_outcome' = Put(authz_outcome, d, outcome)
                    /\ last_use' = Touch(c, d)
                    /\ use_clock' = use_clock + 1
                    /\ evicted' = evicted \cup
                                    (CacheKeys(device_cache) \ CacheKeys(c))
                    /\ IF e.some
                       THEN /\ op' = [op EXCEPT ![t] =
                                         Forward(o, op[t].channel, e)]
                            /\ pc' = [pc EXCEPT ![t] = "bus"]
                       ELSE /\ op' = [op EXCEPT ![t] =
                                         [o EXCEPT !.result = NotAuthorized]]
                            /\ pc' = [pc EXCEPT ![t] = "done"]
    /\ cache_lock' = GuardAfterReturn(t, outcome)
    /\ UNCHANGED <<auth_calls, inboxVars, n_ops, n_fill, closed_called, ev>>

\* sender.publish returns and its result is mapped
BusReturn(t, outcome) ==
    /\ pc[t] = "bus"
    /\ op' = [op EXCEPT ![t].result = PublishResult(outcome),
                        ![t].bus = outcome]
    /\ pc' = [pc EXCEPT ![t] = "done"]
    /\ UNCHANGED <<cacheVars, inboxVars, n_ops, n_fill, closed_called, ev>>

\* ---------------------------------------------------------- subscriptions

\* CommandFilter::wildcard / device / proxied_device for the session's id
FilterWildcard == [kind |-> "wildcard", device |-> <<>>]
FilterDevice == [kind |-> "device", device |-> <<>>]
FilterProxied(d) == [kind |-> "proxied", device |-> d]

NotInbox == [valid |-> FALSE, filter |-> FilterWildcard, force_device |-> FALSE]
Inbox(f, force) == [valid |-> TRUE, filter |-> f, force_device |-> force]

\* the match that tries the proxied-device arm before the empty-segment arm
ClassifyProxiedFirst(topic) ==
    LET s == Split(topic)
    IN  IF s = <<StrCommand, StrInbox, StrHash>>
           \/ s = <<StrCommand, StrInbox, StrPlus, StrHash>>
        THEN Inbox(FilterWildcard, FALSE)
        ELSE IF /\ Len(s) = 4
                /\ s[1] = StrCommand /\ s[2] = StrInbox /\ s[4] = StrHash
        THEN Inbox(FilterProxied(s[3]), TRUE)
        ELSE NotInbox

\* the match of subscribe on the split topic, arm by arm
Classify(topic) ==
    LET s == Split(topic)
    IN  IF s = <<StrCommand, StrInbox, StrHash>>
           \/ s = <<StrCommand, StrInbox, StrPlus, StrHash>>
        THEN Inbox(FilterWildcard, FALSE)
        ELSE IF s = <<StrCommand, StrInbox, StrEmpty, StrHash>>
        THEN Inbox(FilterDevice, FALSE)
        ELSE IF /\ Len(s) = 4
                /\ s[1] = StrCommand /\ s[2] = StrInbox /\ s[4] = StrHash
        THEN Inbox(FilterProxied(s[3]), TRUE)
        ELSE NotInbox

ClassifyOf[topic \in InputTopics] == Classify(topic)

\* the relay ids held by a registry
RelayIds(reg) == {reg[k] : k \in DOMAIN reg}
Remove(f, k) == [x \in (DOMAIN f) \ {k} |-> f[x]]
EmptyMap == [x \in {} |-> 0]

\* relays that were started and have not completed their shutdown
Running == DOMAIN relays

\* the identity of a new relay: one that no live relay and no handler holds
FreshRelay ==
    CHOOSE r \in 1 .. (Cardinality(Running) + 2 * NTasks + 1) :
        /\ r \notin Running
        /\ \A t \in Tasks : r # op[t].closing /\ r \notin op[t].drained
        /\ \A q \in 1 .. (r - 1) :
              \/ q \in Running
              \/ \E t \in Tasks : q = op[t].closing \/ q \in op[t].drained

\* the step just taken, as the protocol sees it
Event(type, t, topics, acks, relay, result) ==
    [type |-> type, task |-> t, topics |-> topics, acks |-> acks,
     relay |-> relay, result |-> result, closed |-> {}, found |-> {}]

\* Entry::Occupied never taken: every subscribe creates a relay
OccupiedNever(reg, key) == FALSE

\* reader.entry(topic_filter) is Entry::Occupied
Occupied(reg, key) == key \in DOMAIN reg

\* the acknowledgement of a not subscribed topic given as a success
UnsubMissAckSuccess == "Success"

\* unsub.fail(UnsubscribeAckReason::NoSubscriptionExisted)
UnsubMissAck == "NoSubscriptionExisted"

\* the success acknowledged as soon as the entry is removed
UnsubRemovedAckSuccess == <<"Success">>

\* what unsubscribe acknowledges between remove and close().await: nothing,
\* unsub.success() comes after the await
UnsubRemovedAck == <<>>

\* a drain that yields one entry and drops the others without closing them
DrainFirstOnly(reg) ==
    IF DOMAIN reg = {} THEN {} ELSE {reg[CHOOSE k \in DOMAIN reg : TRUE]}

\* inbox_reader.drain(): every relay of the registry
Drain(reg) == RelayIds(reg)

\* a rejection of the first entry of the batch only
RejectFirst(batch) ==
    [i \in 1 .. Len(batch) |->
        IF i = 1 THEN "SubscriptionIdentifiersNotSupported" ELSE "None"]

\* the rejection of every entry of a batch that carries an identifier
RejectAll(batch) ==
    [i \in 1 .. Len(batch) |-> "SubscriptionIdentifiersNotSupported"]

\* a loop that returns after its first entry
EntryDoneFirstOnly(t, loop) ==
    /\ pc' = [pc EXCEPT ![t] = "idle"]
    /\ op' = [op EXCEPT ![t] = DefaultOp]

\* the handler of t is done with an entry: it goes on with the loop at `loop`
\* or, after the last entry, returns Ok
EntryDone(t, loop) ==
    IF op[t].n_left > 1
    THEN /\ pc' = [pc EXCEPT ![t] = loop]
         /\ op' = [op EXCEPT ![t].n_left = @ - 1, ![t].cur = <<>>,
                             ![t].closing = 0]
    ELSE /\ pc' = [pc EXCEPT ![t] = "idle"]
         /\ op' = [op EXCEPT ![t] = DefaultOp]

\* what the handler has returned once it is done with an entry
ResultAfter(t) == IF op[t].n_left > 1 THEN Pending ELSE ResOk

\* subscribe up to its first suspension.  With a subscription identifier
\* every entry of the batch is failed.  Without, the loop starts; no step of
\* the loop depends on a later entry, so the topic of an entry is drawn when
\* the loop reaches it and only the length of the batch is kept.
StartSubscribe(t, batch, has_id) ==
    /\ Free(t)
    /\ IF has_id
       THEN /\ op' = [Forget(op, t) EXCEPT ![t] = DefaultOp]
            /\ pc' = [pc EXCEPT ![t] = "idle"]
            /\ ev' = Event("sub_id", t, batch, RejectAll(batch), 0, ResOk)
       ELSE /\ op' = [Forget(op, t) EXCEPT ![t] =
                        [DefaultOp EXCEPT !.kind = "subscribe",
                                          !.n_left = Len(batch)]]
            /\ pc' = [pc EXCEPT ![t] = "sub_loop"]
            /\ ev' = Event("sub_start", t, <<>>, <<>>, 0, Pending)
    /\ UNCHANGED <<cacheVars, inboxVars, n_fill, closed_called>>

\* the loop of subscribe matches the next entry, whose topic is `topic`
SubEntry(t, topic) ==
    /\ pc[t] = "sub_loop"
    /\ IF ClassifyOf[topic].valid
       THEN /\ pc' = [pc EXCEPT ![t] = "sub_lock"]
            /\ op' = [op EXCEPT ![t].cur = topic]
            /\ ev' = Event("sub_entry", t, <<topic>>, <<>>, 0, Pending)
       ELSE /\ EntryDone(t, "sub_loop")
            /\ ev' = Event("sub_entry", t, <<topic>>, <<"UnspecifiedError">>,
                           0, ResultAfter(t))
    /\ UNCHANGED <<cacheVars, inboxVars, n_ops, n_fill, closed_called>>

\* a registry keyed by the command filter: the two wildcard topic filters
\* share one key
RegistryKeyByFilter(topic) ==
    IF ClassifyOf[topic].valid /\ ClassifyOf[topic].filter = FilterWildcard
    THEN TopicAll
    ELSE topic

\* the key of the registry for a topic filter: topic_filter.into(), the
\* string of sub.topic() itself
RegistryKey(topic) == topic

\* subscribe_inbox takes the registry lock and looks the topic filter up
SubLock(t) ==
    /\ pc[t] = "sub_lock"
    /\ reader_lock = 0
    /\ IF Occupied(inbox_reader, RegistryKey(op[t].cur))
       THEN /\ EntryDone(t, "sub_loop")
            /\ reader_lock' = 0
            /\ ev' = Event("sub_dup", t, <<op[t].cur>>, <<"AtMostOnce">>,
                           inbox_reader[RegistryKey(op[t].cur)],
                           ResultAfter(t))
       ELSE /\ pc' = [pc EXCEPT ![t] = "sub_new"]
            /\ reader_lock' = t
            /\ op' = op
            /\ ev' = Event("sub_lock", t, <<op[t].cur>>, <<>>, 0, Pending)
    /\ UNCHANGED <<cacheVars, inbox_reader, relays, n_ops, n_fill,
                   closed_called>>

\* inside InboxSubscription::new: the relay starts
SubRelayStart(t) ==
    /\ pc[t] = "sub_new"
    /\ LET c == ClassifyOf[op[t].cur]
           r == FreshRelay
       IN  /\ relays' = Put(relays, r, [key |-> RegistryKey(op[t].cur),
                                        filter |-> c.filter,
                                        force_device |-> c.force_device])
           /\ op' = [op EXCEPT ![t].closing = r]
           /\ ev' = Event("relay_start", t, <<op[t].cur>>, <<>>, r, Pending)
    /\ pc' = [pc EXCEPT ![t] = "sub_insert"]
    /\ UNCHANGED <<cacheVars, inbox_reader, reader_lock, n_ops, n_fill,
                   closed_called>>

\* the new subscription dropped instead of inserted
EntryInsertDropped(reg, key, r) == reg

\* entry.insert(subscription) on the vacant entry of key
EntryInsert(reg, key, r) == Put(reg, key, r)

\* InboxSubscription::new returned: the entry is inserted, the lock released
SubInsert(t) ==
    /\ pc[t] = "sub_insert"
    /\ inbox_reader' = EntryInsert(inbox_reader, RegistryKey(op[t].cur),
                                   op[t].closing)
    /\ reader_lock' = 0
    /\ EntryDone(t, "sub_loop")
    /\ ev' = Event("sub_insert", t, <<op[t].cur>>, <<"AtMostOnce">>,
                   op[t].closing, ResultAfter(t))
    /\ UNCHANGED <<cacheVars, relays, n_ops, n_fill, closed_called>>

\* unsubscribe of a batch of n entries, up to its first suspension, the lock
StartUnsubscribe(t, n) ==
    /\ Free(t)
    /\ op' = [Forget(op, t) EXCEPT ![t] =
                 [DefaultOp EXCEPT !.kind = "unsubscribe", !.n_left = n]]
    /\ pc' = [pc EXCEPT ![t] = "unsub_lock"]
    /\ ev' = Event("unsub_start", t, <<>>, <<>>, 0, Pending)
    /\ UNCHANGED <<cacheVars, inboxVars, n_fill, closed_called>>

\* unsubscribe holds the registry lock for the whole batch
UnsubLock(t) ==
    /\ pc[t] = "unsub_lock"
    /\ reader_lock = 0
    /\ reader_lock' = t
    /\ pc' = [pc EXCEPT ![t] = "unsub_loop"]
    /\ ev' = Event("unsub_lock", t, <<>>, <<>>, 0, Pending)
    /\ UNCHANGED <<cacheVars, op, inbox_reader, relays, n_ops, n_fill,
                   closed_called>>

\* the loop of unsubscribe removes the next entry, whose topic is `topic`
UnsubEntry(t, topic) ==
    /\ pc[t] = "unsub_loop"
    /\ IF topic \in DOMAIN inbox_reader
       THEN /\ inbox_reader' = Remove(inbox_reader, topic)
            /\ op' = [op EXCEPT ![t].cur = topic,
                                ![t].closing = inbox_reader[topic]]
            /\ pc' = [pc EXCEPT ![t] = "unsub_close"]
            /\ reader_lock' = reader_lock
            /\ ev' = Event("unsub_remove", t, <<topic>>, UnsubRemovedAck,
                           inbox_reader[topic], Pending)
       ELSE /\ inbox_reader' = inbox_reader
            /\ EntryDone(t, "unsub_loop")
            /\ reader_lock' = IF op[t].n_left > 1 THEN reader_lock ELSE 0
            /\ ev' = Event("unsub_entry", t, <<topic>>,
                           <<UnsubMissAck>>, 0, ResultAfter(t))
    /\ UNCHANGED <<cacheVars, relays, n_ops, n_fill, closed_called>>

\* subscription.close() completed: the relay stopped, the entry is acknowledged
UnsubCloseDone(t) ==
    /\ pc[t] = "unsub_close"
    /\ relays' = Remove(relays, op[t].closing)
    /\ EntryDone(t, "unsub_loop")
    /\ reader_lock' = IF op[t].n_left > 1 THEN reader_lock ELSE 0
    /\ ev' = Event("unsub_closed", t, <<op[t].cur>>, <<"Success">>,
                   op[t].closing, ResultAfter(t))
    /\ UNCHANGED <<cacheVars, inbox_reader, n_ops, n_fill, closed_called>>

\* closed up to its first suspension, the lock
StartClosed(t) ==
    /\ Free(t)
    /\ ~closed_called
    /\ closed_called' = TRUE
    /\ op' = [Forget(op, t) EXCEPT ![t] =
                 [DefaultOp EXCEPT !.kind = "closed"]]
    /\ pc' = [pc EXCEPT ![t] = "closed_lock"]
    /\ ev' = Event("closed_start", t, <<>>, <<>>, 0, Pending)
    /\ UNCHANGED <<cacheVars, inboxVars, n_fill>>

\* the for loop of closed takes the next drained relay, or ends;
\* `type` and `r` describe the step, `left` and `done` the drained relays
ClosedNext(t, type, r, found, left, done) ==
    IF left = {}
    THEN /\ op' = [op EXCEPT ![t] = DefaultOp]
         /\ pc' = [pc EXCEPT ![t] = "idle"]
         /\ reader_lock' = 0
         /\ ev' = [Event(type, t, <<>>, <<>>, r, ResOk)
                      EXCEPT !.closed = done, !.found = found]
    ELSE /\ \E nxt \in left :
                op' = [op EXCEPT ![t].closing = nxt,
                                 ![t].drained = left \ {nxt},
                                 ![t].removed = done,
                                 ![t].found = found]
         /\ pc' = [pc EXCEPT ![t] = "closed_close"]
         /\ reader_lock' = t
         /\ ev' = [Event(type, t, <<>>, <<>>, r, Pending)
                      EXCEPT !.closed = done, !.found = found]

\* closed holds the registry lock and drains the registry
ClosedLock(t) ==
    /\ pc[t] = "closed_lock"
    /\ reader_lock = 0
    /\ inbox_reader' = EmptyMap
    /\ ClosedNext(t, "closed_lock", 0, RelayIds(inbox_reader),
                  Drain(inbox_reader), {})
    /\ UNCHANGED <<cacheVars, relays, n_ops, n_fill, closed_called>>

\* v.close() completed for the relay the loop of closed is at
ClosedCloseDone(t) ==
    /\ pc[t] = "closed_close"
    /\ relays' = Remove(relays, op[t].closing)
    /\ ClosedNext(t, "closed_closed", op[t].closing, op[t].found,
                  op[t].drained, op[t].removed \cup {op[t].closing})
    /\ UNCHANGED <<cacheVars, inbox_reader, n_ops, n_fill, closed_called>>

\* ------------------------------------------------------------ specification

Budget(max) == n_ops < max /\ n_ops' = n_ops + 1

\* task ids are interchangeable: a new invocation takes the lowest free task
Lowest(t) == \A u \in Tasks : u < t => ~Free(u)

PublishSteps(ts) ==
    \/ \E t \in ts : AcquireCacheLock(t)
    \/ \E t \in ts : \E outcome \in AuthOutcomes(op[t].as_device) :
          AuthorizeReturn(t, outcome)
    \/ \E t \in ts : \E outcome \in BusOutcomes : BusReturn(t, outcome)

\* concurrent publishes
NextPub ==
    \/ \E t \in Tasks : \E topic \in PubTopics :
          StartPublish(t, topic) /\ Lowest(t) /\ Budget(MaxPubOps)
             /\ n_fill' = n_fill
    \/ PublishSteps(Tasks)

SpecPub == Init /\ [][NextPub]_vars

\* concurrent subscribe, unsubscribe and closed
NextInbox ==
    \/ \E t \in Tasks : \E batch \in Batches : \E has_id \in BOOLEAN :
          /\ Lowest(t) /\ Budget(MaxInboxOps)
          /\ StartSubscribe(t, batch, has_id)
    \/ \E t \in Tasks : \E topic \in SubTopics : SubEntry(t, topic)
    \/ \E t \in Tasks : SubLock(t)
    \/ \E t \in Tasks : SubRelayStart(t)
    \/ \E t \in Tasks : SubInsert(t)
    \/ \E t \in Tasks : \E n \in 1 .. MaxBatch :
          Lowest(t) /\ Budget(MaxInboxOps) /\ StartUnsubscribe(t, n)
    \/ \E t \in Tasks : UnsubLock(t)
    \/ \E t \in Tasks : \E topic \in SubTopics : UnsubEntry(t, topic)
    \/ \E t \in Tasks : UnsubCloseDone(t)
    \/ \E t \in Tasks : Lowest(t) /\ Budget(MaxInboxOps) /\ StartClosed(t)
    \/ \E t \in Tasks : ClosedLock(t)
    \/ \E t \in Tasks : ClosedCloseDone(t)

SpecInbox == Init /\ [][NextInbox]_vars

\* the topic grammar of subscribe: one task subscribes once, to any topic of
\* at most MaxSegs segments
NextTopics ==
    \/ \E has_id \in BOOLEAN :
          StartSubscribe(1, <<TopicAll>>, has_id) /\ Budget(1)
    \/ \E topic \in AllTopics : SubEntry(1, topic)
    \/ SubLock(1)
    \/ SubRelayStart(1)
    \/ SubInsert(1)

SpecTopics == Init /\ [][NextTopics]_vars

\* The cache at its capacity: one task publishes to the filler devices
\* f1, f2, ... in this order, each answered by the authorizer with a fixed
\* definitive outcome, and to the named devices before the first and around
\* the last of them.
NamedTopics == {Join(<<StrTele, StrD2>>), Join(<<StrTele, StrD3>>)}

LruOutcomes(name) ==
    IF name \in {StrD2, StrD3} THEN {AuthPass(name), AuthOther}
    ELSE IF Len(name) % 2 = 0 THEN {AuthPass(name)}
    ELSE {AuthOther}

NextLRU ==
    \/ /\ n_fill < NFillers
       /\ StartPublish(1, FillerTopic(n_fill + 1))
       /\ n_fill' = n_fill + 1
       /\ n_ops' = n_ops
    \/ \E topic \in NamedTopics :
          /\ n_fill = 0 \/ n_fill >= NFillers - LruWindow
          /\ StartPublish(1, topic)
          /\ Budget(MaxNamedOps)
          /\ n_fill' = n_fill
    \/ AcquireCacheLock(1)
    \/ \E outcome \in LruOutcomes(op[1].as_device) : AuthorizeReturn(1, outcome)
    \/ BusReturn(1, [kind |-> "Accepted", text |-> ""])

SpecLRU == Init /\ [][NextLRU]_vars

\* the topic grammar of publish: one task publishes to any topic of at most
\* MaxSegs segments
NextShapes ==
    \/ \E topic \in ShapeTopics :
          StartPublish(1, topic) /\ Budget(MaxShapeOps) /\ n_fill' = n_fill
    \/ PublishSteps({1})

SpecShapes == Init /\ [][NextShapes]_vars

\* the two topic filters of the wildcard command filter
KeyTopics == {TopicAll, TopicPlus}

\* subscribe, unsubscribe and closed over the two wildcard topic filters
NextKeys ==
    \/ \E t \in Tasks : \E n \in 1 .. MaxBatch : \E has_id \in BOOLEAN :
          /\ Lowest(t) /\ Budget(MaxInboxOps)
          /\ StartSubscribe(t, [i \in 1 .. n |-> TopicPlus], has_id)
    \/ \E t \in Tasks : \E topic \in KeyTopics : SubEntry(t, topic)
    \/ \E t \in Tasks : SubLock(t)
    \/ \E t \in Tasks : SubRelayStart(t)
    \/ \E t \in Tasks : SubInsert(t)
    \/ \E t \in Tasks : \E n \in 1 .. MaxBatch :
          Lowest(t) /\ Budget(MaxInboxOps) /\ StartUnsubscribe(t, n)
    \/ \E t \in Tasks : UnsubLock(t)
    \/ \E t \in Tasks : \E topic \in KeyTopics : UnsubEntry(t, topic)
    \/ \E t \in Tasks : UnsubCloseDone(t)
    \/ \E t \in Tasks : Lowest(t) /\ Budget(MaxInboxOps) /\ StartClosed(t)
    \/ \E t \in Tasks : ClosedLock(t)
    \/ \E t \in Tasks : ClosedCloseDone(t)

SpecKeys == Init /\ [][NextKeys]_vars

\* The inputs of SpecFair: one topic for each way through a handler, one
\* result for each way an awaited call returns.
FairPubTopics == {StrTele, Join(<<StrTele, StrD2>>), Join(<<StrTele, StrD2, StrD3>>)}
FairSubTopics == {TopicAll, TopicNoHash}
FairAuthOutcomes == {AuthPass(StrD2), AuthOther, AuthErr}
FairBusOutcomes ==
    {[kind |-> "Accepted", text |-> ""], [kind |-> "Err", text |-> "bus down"]}

\* a step of the handler invocation of task t past its start: a lock is
\* taken, or an awaited call (authorizer, bus, relay creation, relay shutdown)
\* returns
Continue(t) ==
    \/ AcquireCacheLock(t)
    \/ \E outcome \in FairAuthOutcomes : AuthorizeReturn(t, outcome)
    \/ \E outcome \in FairBusOutcomes : BusReturn(t, outcome)
    \/ \E topic \in FairSubTopics : SubEntry(t, topic)
    \/ SubLock(t)
    \/ SubRelayStart(t)
    \/ SubInsert(t)
    \/ UnsubLock(t)
    \/ \E topic \in FairSubTopics : UnsubEntry(t, topic)
    \/ UnsubCloseDone(t)
    \/ ClosedLock(t)
    \/ ClosedCloseDone(t)

\* publish, subscribe, unsubscribe and closed together
NextAll ==
    \/ \E t \in Tasks : \E topic \in FairPubTopics :
          /\ Lowest(t) /\ Budget(MaxAllOps)
          /\ StartPublish(t, topic) /\ n_fill' = n_fill
    \/ \E t \in Tasks : \E n \in 1 .. MaxBatch : \E has_id \in BOOLEAN :
          /\ Lowest(t) /\ Budget(MaxAllOps)
          /\ StartSubscribe(t, [i \in 1 .. n |-> TopicAll], has_id)
    \/ \E t \in Tasks : \E n \in 1 .. MaxBatch :
          Lowest(t) /\ Budget(MaxAllOps) /\ StartUnsubscribe(t, n)
    \/ \E t \in Tasks : Lowest(t) /\ Budget(MaxAllOps) /\ StartClosed(t)
    \/ \E t \in Tasks : Continue(t)

\* The executor polls every task that was woken: a handler that can take a
\* step eventually takes one, and every awaited call returns.  New calls
\* need not arrive.
SpecFair ==
    Init /\ [][NextAll]_vars /\ \A t \in Tasks : WF_vars(Continue(t))

\* ------------------------------------------------------------------ properties

\* the outcome of eval_device of a publish that is past it
EvalFinished(t) == op[t].kind = "publish" /\ pc[t] \in {"bus", "done"}
EvalOutcome(o) ==
    IF o.device.some
    THEN [ok |-> TRUE, device |-> o.device.name, err |-> ""]
    ELSE [ok |-> FALSE, device |-> <<>>, err |-> o.result.tag]

\* C1: a publish as proxied device D that finds D in the cache returns the
\* definitive outcome the authorizer gave for D (the granted device, or
\* NotAuthorized) and makes no authorizer call, whatever the authorizer
\* would answer now.
C1_CachedOutcomeReused ==
    [][\A t \in Tasks :
          (/\ pc[t] = "cache_lock"
           /\ pc'[t] # "cache_lock"
           /\ HasKey(device_cache, op[t].as_device))
          => /\ op[t].as_device \in DOMAIN authz_outcome
             /\ auth_calls' = auth_calls
             /\ op'[t].auth_calls = 0
             /\ HasKey(device_cache', op[t].as_device)
             /\ LET first == authz_outcome[op[t].as_device]
                IN  IF first.kind = "Pass"
                    THEN /\ pc'[t] = "bus"
                         /\ op'[t].device = SomeDevice(first.as)
                         /\ op'[t].msg.device_id = first.as
                    ELSE /\ pc'[t] = "done"
                         /\ op'[t].result = NotAuthorized]_vars

\* C1 witness: a second publish to a denied device failed NotAuthorized from
\* the cache, without an authorizer call of its own.
C1_Witness ==
    \E t \in Tasks :
        /\ pc[t] = "done" /\ op[t].hit /\ op[t].auth_calls = 0
        /\ op[t].result = NotAuthorized
        /\ Count(auth_calls, op[t].as_device) = 1

\* t and u resolved the same uncached proxied device concurrently, and no
\* third publish did
RacingPair(t, u) ==
    /\ t # u
    /\ op[t].race = {u} /\ op[u].race = {t}
    /\ EvalFinished(t) /\ EvalFinished(u)

\* C2 as stated: of two publishes that concurrently resolve the same uncached
\* device exactly one calls the authorizer and both return the same outcome.
C2_ExactlyOneCall ==
    \A t, u \in Tasks :
        RacingPair(t, u)
        => /\ op[t].auth_calls + op[u].auth_calls = 1
           /\ EvalOutcome(op[t]) = EvalOutcome(op[u])

\* C2 amended: the same, provided no authorizer call of the two failed with a
\* transport error and the entry was not evicted in between.
C2_OneCallIfDefinitive ==
    \A t, u \in Tasks :
        (/\ RacingPair(t, u)
         /\ op[t].authz # "Err" /\ op[u].authz # "Err"
         /\ op[t].as_device \notin evicted)
        => /\ op[t].auth_calls + op[u].auth_calls = 1
           /\ EvalOutcome(op[t]) = EvalOutcome(op[u])

\* C2 witness: two racing publishes, the first called the authorizer and the
\* second found the entry the first had cached.
C2_Witness ==
    \E t, u \in Tasks :
        /\ RacingPair(t, u)
        /\ op[t].auth_calls = 1 /\ op[t].authz \in {"Pass", "Other"}
        /\ op[u].hit /\ op[u].auth_calls = 0

\* C10: a publish whose identity resolution succeeded called the bus exactly
\* once, and its result is Accepted -> Ok, Rejected -> UnspecifiedError,
\* QueueFull -> QuotaExceeded, error -> InternalError with the error text.
C10_BusResultMapped ==
    \A t \in Tasks :
        /\ op[t].bus_calls <= 1
        /\ pc[t] = "bus" => op[t].bus_calls = 1 /\ op[t].device.some
        /\ (pc[t] = "done" /\ op[t].kind = "publish" /\ op[t].device.some)
           => /\ op[t].bus_calls = 1
              /\ op[t].bus.kind = "Accepted" => op[t].result = ResOk
              /\ op[t].bus.kind = "Rejected"
                    => op[t].result = UnspecifiedError
              /\ op[t].bus.kind = "QueueFull"
                    => op[t].result = QuotaExceeded
              /\ op[t].bus.kind = "Err"
                    => op[t].result = [tag |-> "InternalError",
                                       detail |-> op[t].bus.text]
              /\ op[t].bus.kind \in {"Accepted", "Rejected", "QueueFull", "Err"}

\* C10 witness: the bus answered QueueFull and the caller got QuotaExceeded.
C10_Witness ==
    \E t \in Tasks :
        /\ pc[t] = "done" /\ op[t].bus.kind = "QueueFull"
        /\ op[t].result = QuotaExceeded /\ op[t].bus_calls = 1

\* an insertion of a new key evicts, from a full cache, exactly the key whose
\* last use (hit or insertion) is the oldest, and nothing otherwise
EvictsLeastRecentlyUsed ==
    LET old == CacheKeys(device_cache)
        new == CacheKeys(device_cache')
    IN  (new # old)
        => /\ Cardinality(new \ old) = 1
           /\ IF Len(device_cache) < CacheCapacity
              THEN old \subseteq new
              ELSE \E k \in old :
                      /\ old \ new = {k}
                      /\ \A j \in old : last_use[k] <= last_use[j]

\* C3: the cache never holds more than its capacity of 128 entries, and an
\* insertion into the full cache evicts the least recently used key, where a
\* hit and an insertion both count as a use.
C3_BoundedLRU ==
    /\ [](Len(device_cache) <= CacheCapacity)
    /\ [](Cardinality(CacheKeys(device_cache)) = Len(device_cache))
    /\ [][EvictsLeastRecentlyUsed]_vars

\* C3 witness: the cache is full, the first filler was evicted, and d2, which
\* was inserted before it and hit again later, is still cached.
C3_Witness ==
    /\ Len(device_cache) = CacheCapacity
    /\ FillerName(1) \in evicted
    /\ HasKey(device_cache, StrD2)
    /\ \E t \in Tasks : op[t].hit

\* every key of the registry holds a live relay of that key, and every live
\* relay is held by exactly one key
Mirror ==
    /\ RelayIds(inbox_reader) = Running
    /\ \A k \in DOMAIN inbox_reader :
          inbox_reader[k] \in Running => relays[inbox_reader[k]].key = k
    /\ \A j, k \in DOMAIN inbox_reader :
          inbox_reader[j] = inbox_reader[k] => j = k

\* C4 as stated: in every state, the intermediate states of subscribe_inbox,
\* unsubscribe and closed included, the keys of the registry are exactly the
\* live relays.
C4_MirrorAlways == Mirror

\* C4 amended: the keys of the registry are exactly the live relays whenever
\* the registry lock is free, that is in every state another handler of the
\* session can observe the registry in.
C4_MirrorWhenUnlocked == reader_lock = 0 => Mirror

\* C4 witness: the lock is free again after an unsubscribe removed and closed
\* one relay while another stays registered.
C4_Witness ==
    /\ reader_lock = 0
    /\ ev.type = "unsub_closed"
    /\ Cardinality(Running) = 1

\* the step just taken is of one of these types
Step(types) == ev'.type \in types

\* C5: a subscribe for a key that is already registered creates no relay and
\* replaces none, and is acknowledged AtMostOnce; no two live relays share a
\* key; an unsubscribe of a registered key removes that entry only and stops
\* that relay only.
C5_OneRelayPerFilter ==
    /\ [](\A q, r \in Running : relays[q].key = relays[r].key => q = r)
    /\ [][\A t \in Tasks :
             (/\ pc[t] = "sub_lock" /\ pc'[t] # "sub_lock"
              /\ op[t].cur \in DOMAIN inbox_reader)
             => /\ inbox_reader' = inbox_reader
                /\ relays' = relays
                /\ ev'.acks = <<"AtMostOnce">>
                /\ ev'.relay = inbox_reader[op[t].cur]]_vars
    /\ [][\A t \in Tasks : \A k \in DOMAIN inbox_reader :
             (/\ pc[t] = "unsub_loop" /\ pc'[t] # "unsub_loop"
              /\ Step({"unsub_remove"}) /\ ev'.topics = <<k>>)
             => /\ inbox_reader' = [j \in DOMAIN inbox_reader \ {k} |->
                                       inbox_reader[j]]
                /\ relays' = relays
                /\ op'[t].closing = inbox_reader[k]]_vars
    /\ [][\A t \in Tasks :
             (pc[t] = "unsub_close" /\ pc'[t] # "unsub_close")
             => /\ relays' = [r \in Running \ {op[t].closing} |-> relays[r]]
                /\ op[t].closing \in Running
                /\ inbox_reader' = inbox_reader
                /\ ev'.acks = <<"Success">>]_vars

\* C5 witness: a second subscribe to the same filter was acknowledged and the
\* filter still has the one relay it had.
C5_Witness ==
    /\ ev.type = "sub_dup"
    /\ ev.acks = <<"AtMostOnce">>
    /\ Cardinality({r \in Running : relays[r].key = ev.topics[1]}) = 1
    /\ inbox_reader[ev.topics[1]] = ev.relay

\* C6: an unsubscribe entry whose topic is no key of the registry is
\* acknowledged NoSubscriptionExisted, changes neither registry nor relays,
\* and unsubscribe goes on and returns Ok.
C6_UnsubscribeMissing ==
    [][\A t \in Tasks : \A topic \in SubTopics :
          (/\ pc[t] = "unsub_loop"
           /\ (pc'[t] # pc[t] \/ op'[t] # op[t])
           /\ ev'.topics = <<topic>>
           /\ topic \notin DOMAIN inbox_reader)
          => /\ ev'.acks = <<"NoSubscriptionExisted">>
             /\ inbox_reader' = inbox_reader
             /\ relays' = relays
             /\ IF op[t].n_left > 1
                THEN pc'[t] = "unsub_loop" /\ ev'.result = Pending
                ELSE pc'[t] = "idle" /\ ev'.result = ResOk
                     /\ reader_lock' = 0]_vars

\* C6 witness: unsubscribe returned Ok after a NoSubscriptionExisted for its
\* last entry, with a relay still registered.
C6_Witness ==
    /\ ev.type = "unsub_entry"
    /\ ev.acks = <<"NoSubscriptionExisted">>
    /\ ev.result = ResOk
    /\ Running # {} /\ RelayIds(inbox_reader) = Running

\* C7: when closed returns, the registry is empty and every relay that was
\* registered when closed took the lock has completed its shutdown.
C7_ClosedStopsAll ==
    (ev.type \in {"closed_lock", "closed_closed"} /\ ev.result = ResOk)
    => /\ DOMAIN inbox_reader = {}
       /\ ev.closed = ev.found
       /\ ev.found \cap Running = {}
       /\ reader_lock = 0

\* C7 witness: closed returned after it closed two relays.
C7_Witness ==
    /\ ev.type = "closed_closed" /\ ev.result = ResOk
    /\ Cardinality(ev.closed) = 2

\* C8: a subscribe batch with a subscription identifier has every entry
\* acknowledged SubscriptionIdentifiersNotSupported, whatever its topic,
\* creates no relay and leaves the registry unchanged.
C8_SubscriptionIdRejected ==
    [][Step({"sub_id"})
       => /\ Len(ev'.acks) = Len(ev'.topics)
          /\ \A i \in 1 .. Len(ev'.topics) :
                ev'.acks[i] = "SubscriptionIdentifiersNotSupported"
          /\ inbox_reader' = inbox_reader
          /\ relays' = relays
          /\ reader_lock' = reader_lock
          /\ ev'.result = ResOk]_vars

\* C8 witness: a batch of two entries, one of them a valid inbox topic, was
\* rejected because of its subscription identifier.
C8_Witness ==
    /\ ev.type = "sub_id"
    /\ Len(ev.topics) = 2 /\ Len(ev.acks) = 2
    /\ ev.topics[1] = TopicAll

\* the classification of a topic as the topic grammar states it, on the
\* topic string
Expected(topic) ==
    IF topic \in {TopicAll, TopicPlus} THEN Inbox(FilterWildcard, FALSE)
    ELSE IF topic = TopicSelf THEN Inbox(FilterDevice, FALSE)
    ELSE IF \E d \in Segments \ {StrPlus, StrEmpty} :
               topic = Join(<<StrCommand, StrInbox, d, StrHash>>)
    THEN LET d == CHOOSE x \in Segments :
                     topic = Join(<<StrCommand, StrInbox, x, StrHash>>)
         IN  Inbox(FilterProxied(d), TRUE)
    ELSE NotInbox

\* C9: without subscription identifier a topic is one of the four inbox
\* shapes, registered with its filter and force_device and acknowledged
\* AtMostOnce, or it is acknowledged UnspecifiedError and registers nothing;
\* force_device holds exactly for the proxied-device filters.
C9_TopicShapes ==
    /\ [](\A r \in Running :
             /\ Expected(relays[r].key).valid
             /\ relays[r].filter = Expected(relays[r].key).filter
             /\ relays[r].force_device = Expected(relays[r].key).force_device
             /\ relays[r].force_device <=> relays[r].filter.kind = "proxied")
    /\ [](\A k \in DOMAIN inbox_reader : Expected(k).valid)
    /\ [][Step({"sub_entry"})
          => IF Expected(ev'.topics[1]).valid
             THEN /\ ev'.acks = <<>>
                  /\ pc'[ev'.task] = "sub_lock"
                  /\ op'[ev'.task].cur = ev'.topics[1]
             ELSE /\ ev'.acks = <<"UnspecifiedError">>
                  /\ inbox_reader' = inbox_reader
                  /\ relays' = relays
                  /\ pc'[ev'.task] \in {"idle", "sub_loop"}]_vars
    /\ [][Step({"sub_insert"})
          => /\ ev'.acks = <<"AtMostOnce">>
             /\ ev'.topics[1] \in DOMAIN inbox_reader'
             /\ inbox_reader'[ev'.topics[1]] = ev'.relay
             /\ ev'.relay \in DOMAIN relays'
             /\ relays'[ev'.relay].key = ev'.topics[1]]_vars

\* C9 witness: command/inbox/d2/# is registered with the proxied-device filter
\* of d2 and force_device.
C9_Witness ==
    /\ ev.type = "sub_insert" /\ ev.topics = <<TopicD2>>
    /\ relays[ev.relay].filter = FilterProxied(StrD2)
    /\ relays[ev.relay].force_device
    /\ inbox_reader[TopicD2] = ev.relay

\* C11: a publish is forwarded only when eval_device succeeded; the acting
\* device of a forwarded publish is the authenticated device (one segment) or
\* the identity the authorizer granted with Pass for the requested name; the
\* sender is always the authenticated device; a publish that failed in
\* eval_device forwarded nothing.
C11_ForwardedIdentity ==
    /\ [](\A t \in Tasks :
             /\ op[t].bus_calls > 0
                => /\ op[t].device.some
                   /\ op[t].msg.sender_id = SelfDevice
                   /\ op[t].msg.device_id = op[t].device.name
             /\ (pc[t] = "done" /\ op[t].kind = "publish" /\ ~op[t].device.some)
                => /\ op[t].bus_calls = 0
                   /\ op[t].msg = NoMsg
                   /\ op[t].result \in
                         {NotAuthorized, TopicNameInvalid,
                          InternalError("Failed to authorize device")})
    /\ [][\A t \in Tasks :
             (pc'[t] = "bus" /\ (pc[t] # "bus" \/ op'[t].topic # op[t].topic))
             => LET segs == SplitOf[op'[t].topic]
                    m == op'[t].msg
                IN  /\ m.channel = segs[1]
                    /\ m.sender_id = SelfDevice
                    /\ IF Len(segs) = 1
                       THEN m.device_id = SelfDevice
                       ELSE /\ Len(segs) = 2
                            /\ segs[2] \in DOMAIN authz_outcome'
                            /\ authz_outcome'[segs[2]].kind = "Pass"
                            /\ m.device_id = authz_outcome'[segs[2]].as]_vars

\* C11 witness: a publish as d2, for which the authorizer granted the identity
\* d3, is forwarded with acting device d3 and the authenticated device as sender.
C11_Witness ==
    \E t \in Tasks :
        /\ pc[t] = "bus" /\ op[t].as_device = StrD2
        /\ op[t].msg.device_id = StrD3
        /\ op[t].msg.sender_id = SelfDevice

\* C12: a publish to a single-segment topic resolves to that segment as the
\* channel and to the authenticated device, never waits for the cache lock,
\* leaves the cache, its lock and its history as they are, and calls no
\* authorizer.
C12_SelfPublishNoCache ==
    /\ [](\A t \in Tasks :
             (op[t].kind = "publish" /\ Len(SplitOf[op[t].topic]) = 1)
             => /\ pc[t] \in {"bus", "done"}
                /\ op[t].auth_calls = 0 /\ ~op[t].hit
                /\ op[t].channel = op[t].topic
                /\ op[t].device = SomeDevice(SelfDevice)
                /\ op[t].msg.device_id = SelfDevice)
    /\ [][\A t \in Tasks :
             (Free(t) /\ pc'[t] = "bus")
             => /\ Len(SplitOf[op'[t].topic]) = 1
                /\ device_cache' = device_cache
                /\ cache_lock' = cache_lock
                /\ auth_calls' = auth_calls
                /\ last_use' = last_use]_vars

\* C12 witness: a publish to "t" is at the bus as the authenticated device
\* while another publish holds the cache lock across its authorizer call.
C12_Witness ==
    \E t, u \in Tasks :
        /\ pc[t] = "bus" /\ op[t].topic = StrTele
        /\ op[t].msg.device_id = SelfDevice
        /\ pc[u] = "authorize" /\ cache_lock = u

\* the number of '/' in a topic string
Slashes(topic) == Cardinality({i \in 1 .. Len(topic) : topic[i] = Slash})

\* C13: a publish whose topic has three or more segments (two or more '/')
\* fails with TopicNameInvalid, and no other publish does; it calls no
\* authorizer, changes nothing of the cache and forwards nothing.
C13_OtherShapesInvalid ==
    /\ [](\A t \in Tasks :
             op[t].kind = "publish"
             => IF Slashes(op[t].topic) >= 2
                THEN /\ pc[t] = "done"
                     /\ op[t].result = TopicNameInvalid
                     /\ op[t].auth_calls = 0 /\ ~op[t].hit
                     /\ op[t].bus_calls = 0 /\ op[t].msg = NoMsg
                ELSE op[t].result # TopicNameInvalid)
    /\ [][\A t \in Tasks :
             (n_ops' # n_ops /\ Free(t) /\ Slashes(op'[t].topic) >= 2)
             => /\ device_cache' = device_cache
                /\ cache_lock' = cache_lock
                /\ auth_calls' = auth_calls
                /\ last_use' = last_use]_vars

\* C13 witness: with a device cached, a publish to t/d2/t failed with
\* TopicNameInvalid and did not call the authorizer for d2.
C13_Witness ==
    /\ pc[1] = "done" /\ op[1].result = TopicNameInvalid
    /\ op[1].topic = Join(<<StrTele, StrD2, StrTele>>)
    /\ HasKey(device_cache, StrTele)
    /\ Count(auth_calls, StrD2) = 0

\* C14: when authorize_as fails, the publish fails with InternalError, the
\* cache (contents and order) is unchanged and the lock released; a publish
\* that misses calls the authorizer, so the next one for that device does;
\* a Pass is cached as a grant, any other outcome as a denial that fails with
\* NotAuthorized, and only such outcomes are ever cached.
C14_ErrorNotCached ==
    /\ [][\A t \in Tasks :
             (pc[t] = "authorize" /\ pc'[t] # "authorize")
             => LET d == op[t].as_device
                IN  /\ cache_lock = t /\ cache_lock' = 0
                    /\ ~HasKey(device_cache, d)
                    /\ IF op'[t].authz = "Err"
                       THEN /\ device_cache' = device_cache
                            /\ pc'[t] = "done"
                            /\ op'[t].result.tag = "InternalError"
                            /\ op'[t].bus_calls = 0
                       ELSE /\ HasKey(device_cache', d)
                            /\ IF op'[t].authz = "Pass"
                               THEN /\ EntryOf(device_cache', d).some
                                    /\ pc'[t] = "bus"
                               ELSE /\ EntryOf(device_cache', d) = NoDevice
                                    /\ pc'[t] = "done"
                                    /\ op'[t].result = NotAuthorized]_vars
    /\ [][\A t \in Tasks :
             (/\ pc[t] = "cache_lock" /\ pc'[t] # "cache_lock"
              /\ ~HasKey(device_cache, op[t].as_device))
             => /\ pc'[t] = "authorize"
                /\ op'[t].auth_calls = 1
                /\ Count(auth_calls', op[t].as_device)
                      = Count(auth_calls, op[t].as_device) + 1]_vars
    /\ [](\A k \in CacheKeys(device_cache) :
             /\ k \in DOMAIN authz_outcome
             /\ authz_outcome[k].kind \in {"Pass", "Other"})

\* C14 witness: a publish as some device failed on an authorizer error, the
\* device is not cached, and the next publish as that device is in its own
\* authorizer call, the second for the device.
C14_Witness ==
    \E t, u \in Tasks :
        /\ pc[t] = "done" /\ op[t].authz = "Err"
        /\ op[t].result = InternalError("Failed to authorize device")
        /\ pc[u] = "authorize" /\ op[u].as_device = op[t].as_device
        /\ Count(auth_calls, op[t].as_device) = 2
        /\ ~HasKey(device_cache, op[t].as_device)

\* the cache as a set of (key, entry) pairs
CacheMap(c) == {<<c[i].key, c[i].entry>> : i \in 1 .. Len(c)}

\* C15: a key of the cache holds one entry, a grant or a denial; an entry is
\* written only for a key that is not cached, so that while a key stays in
\* the cache its entry stays what it is.
C15_EntryStable ==
    /\ [](Cardinality(CacheKeys(device_cache)) = Len(device_cache))
    /\ [](\A i \in 1 .. Len(device_cache) :
             LET e == device_cache[i].entry
             IN  e = NoDevice \/ (e.some /\ e = SomeDevice(e.name)))
    /\ [][\A k \in CacheKeys(device_cache) \cap CacheKeys(device_cache') :
             EntryOf(device_cache', k) = EntryOf(device_cache, k)]_vars
    /\ [][CacheMap(device_cache') # CacheMap(device_cache)
          => \E t \in Tasks :
                /\ pc[t] = "authorize"
                /\ ~HasKey(device_cache, op[t].as_device)
                /\ CacheKeys(device_cache') \ CacheKeys(device_cache)
                      = {op[t].as_device}]_vars

\* C15 witness: d2 is cached as a denial and d3 as a grant, and a later
\* publish as d2 found the denial.
C15_Witness ==
    /\ HasKey(device_cache, StrD2) /\ HasKey(device_cache, StrD3)
    /\ EntryOf(device_cache, StrD2) = NoDevice
    /\ EntryOf(device_cache, StrD3).some
    /\ \E t \in Tasks :
          /\ op[t].as_device = StrD2 /\ op[t].hit
          /\ op[t].result = NotAuthorized

\* a step of the loop of subscribe or unsubscribe of task t that is done with
\* an entry (the entry is acknowledged in it)
EntryStep(t) ==
    /\ ev'.task = t /\ (pc'[t] # pc[t] \/ op'[t] # op[t])
    /\ \/ pc[t] \in {"sub_loop", "unsub_loop"} /\ pc'[t] \in {pc[t], "idle"}
       \/ pc[t] \in {"sub_lock", "sub_insert", "unsub_close"}
          /\ pc'[t] \in {"sub_loop", "unsub_loop", "idle"}

\* C16: every entry of a subscribe or unsubscribe batch gets its own
\* acknowledgement, one per entry and as many as the batch has entries; an
\* entry that is acknowledged negatively changes neither registry nor relays
\* and does not end the loop: the next entry is handled as any other; the
\* handlers return Ok and nothing else, after the last entry.
C16_PerEntryAcks ==
    /\ [](ev.result \in {Pending, ResOk})
    /\ [](\A t \in Tasks :
             op[t].kind \in {"subscribe", "unsubscribe"} => op[t].n_left >= 1)
    /\ [][\A t \in Tasks :
             (Free(t) /\ op'[t].kind \in {"subscribe", "unsubscribe"})
             => op'[t].n_left \in 1 .. MaxBatch /\ ev'.acks = <<>>]_vars
    /\ [][\A t \in Tasks :
             (ev'.task = t /\ op[t].kind \in {"subscribe", "unsubscribe"})
             => IF EntryStep(t)
                THEN /\ Len(ev'.acks) = 1
                     /\ IF op[t].n_left > 1
                        THEN /\ op'[t].kind = op[t].kind
                             /\ op'[t].n_left = op[t].n_left - 1
                             /\ pc'[t] \in {"sub_loop", "unsub_loop"}
                             /\ ev'.result = Pending
                        ELSE pc'[t] = "idle" /\ ev'.result = ResOk
                     /\ ev'.acks[1] \in {"UnspecifiedError",
                                         "NoSubscriptionExisted"}
                        => inbox_reader' = inbox_reader /\ relays' = relays
                ELSE /\ ev'.acks = <<>> /\ ev'.result = Pending
                     /\ op'[t].n_left = op[t].n_left]_vars

\* C16 witness: the first entry of a subscribe batch was refused with
\* UnspecifiedError and the handler is at the loop for the next entry, with
\* the registry lock free.
C16_Witness ==
    /\ ev.acks = <<"UnspecifiedError">> /\ ev.result = Pending
    /\ pc[ev.task] = "sub_loop" /\ op[ev.task].n_left = 1
    /\ reader_lock = 0

\* C17: unsubscribe acknowledges a registered topic with a success only in
\* the step in which close() of its relay completes, with the entry removed
\* before; in between nothing is acknowledged and unsubscribe does not return;
\* no success is acknowledged for a relay that is running.
C17_SuccessAfterClose ==
    /\ [](ev.acks = <<"Success">>
          => /\ ev.relay \notin Running
             /\ ev.relay \notin RelayIds(inbox_reader))
    /\ []((ev.type \in {"unsub_closed", "unsub_entry"} /\ ev.result = ResOk)
          => RelayIds(inbox_reader) = Running)
    /\ [][ev'.acks = <<"Success">>
          => /\ pc[ev'.task] = "unsub_close"
             /\ op[ev'.task].closing = ev'.relay
             /\ ev'.relay \in Running
             /\ ev'.relay \notin RelayIds(inbox_reader)
             /\ ev'.topics[1] \notin DOMAIN inbox_reader'
             /\ Running' = Running \ {ev'.relay}]_vars
    /\ [][\A t \in Tasks : \A k \in DOMAIN inbox_reader :
             (/\ pc[t] = "unsub_loop" /\ ev'.task = t /\ ev'.topics = <<k>>
              /\ (pc'[t] # pc[t] \/ op'[t] # op[t]))
             => /\ ev'.acks = <<>> /\ ev'.result = Pending
                /\ pc'[t] = "unsub_close"
                /\ k \notin DOMAIN inbox_reader'
                /\ inbox_reader[k] \in Running']_vars

\* C17 witness: unsubscribe returned after the success for its last entry;
\* the relay of that entry has stopped and no relay is left.
C17_Witness ==
    /\ ev.type = "unsub_closed" /\ ev.acks = <<"Success">>
    /\ ev.result = ResOk
    /\ ev.relay \notin Running /\ Running = {}
    /\ ev.topics[1] \notin DOMAIN inbox_reader

\* C18 as stated: while an authorize_as call is outstanding, a publish as a
\* different proxied device is not blocked by the guard held across the call.
C18_OtherDevicesNotBlocked ==
    \A t, u \in Tasks :
        (/\ pc[t] = "authorize" /\ pc[u] = "cache_lock"
         /\ op[u].as_device # op[t].as_device)
        => ENABLED AcquireCacheLock(u)

\* C18 amended: while an authorize_as call is outstanding its caller holds
\* the one cache lock of the session, and every publish that names a proxied
\* device, the same or another, waits at the lock; a publish as self can
\* start and never waits, and a publish at the bus can complete.
C18_GuardBlocksNamedPublishes ==
    /\ \A t, u \in Tasks :
          (pc[t] = "authorize" /\ pc[u] = "cache_lock")
          => cache_lock = t /\ ~ENABLED AcquireCacheLock(u)
    /\ \A u \in Tasks :
          /\ (op[u].kind = "publish" /\ Slashes(op[u].topic) = 0)
             => pc[u] \in {"bus", "done"}
          /\ pc[u] = "bus"
             => ENABLED (\E outcome \in BusOutcomes : BusReturn(u, outcome))
          /\ Free(u) => ENABLED StartPublish(u, StrTele)

\* C18 witness: a publish as d3 waits at the cache lock while the authorizer
\* call for d2 is outstanding.
C18_Witness ==
    \E t, u \in Tasks :
        /\ pc[t] = "authorize" /\ op[t].as_device = StrD2
        /\ pc[u] = "cache_lock" /\ op[u].as_device = StrD3
        /\ cache_lock = t

\* closed() was called and has returned
ClosedDone == closed_called /\ \A t \in Tasks : op[t].kind # "closed"

\* C19: once closed() has completed no relay is live and the registry is
\* empty, whatever subscribe and unsubscribe calls run with it or after it.
C19_NoRelayAfterClosed ==
    ClosedDone => Running = {} /\ DOMAIN inbox_reader = {}

\* C20: AtMostOnce is acknowledged for a subscribe entry only in the step in
\* which subscribe_inbox returns, with the registry lock released, and then
\* the registry holds under that very topic filter a live relay of that key:
\* the one just created, or the one that was registered before.
C20_AckAfterRegistered ==
    /\ [](ev.acks = <<"AtMostOnce">>
          => /\ ev.topics[1] \in DOMAIN inbox_reader
             /\ inbox_reader[ev.topics[1]] = ev.relay
             /\ ev.relay \in Running
             /\ relays[ev.relay].key = ev.topics[1])
    /\ [][ev'.acks = <<"AtMostOnce">>
          => LET t == ev'.task
                 k == ev'.topics[1]
             IN  /\ pc[t] \in {"sub_lock", "sub_insert"}
                 /\ op[t].cur = k
                 /\ reader_lock' = 0
                 /\ k \in DOMAIN inbox_reader'
                 /\ inbox_reader'[k] \in Running'
                 /\ IF pc[t] = "sub_lock"
                    THEN /\ k \in DOMAIN inbox_reader
                         /\ inbox_reader'[k] = inbox_reader[k]
                    ELSE /\ k \notin DOMAIN inbox_reader
                         /\ inbox_reader'[k] = op[t].closing]_vars
    /\ [][(\/ ev'.type \in {"sub_lock", "relay_start"}
           \/ ev'.type = "sub_entry" /\ pc'[ev'.task] = "sub_lock")
          => ev'.acks = <<>> /\ ev'.result = Pending]_vars

\* C20 witness: command/inbox/# was acknowledged with its new relay
\* registered, while an unsubscribe waits for the registry lock.
C20_Witness ==
    /\ ev.type = "sub_insert" /\ ev.acks = <<"AtMostOnce">>
    /\ ev.topics = <<TopicAll>>
    /\ inbox_reader[TopicAll] = ev.relay /\ ev.relay \in Running
    /\ \E u \in Tasks : pc[u] = "unsub_lock"

\* the locks held by the handler invocation of t
HoldsCache(t) == cache_lock = t
HoldsRegistry(t) == reader_lock = t

\* C21: no handler holds the cache lock and the registry lock together; a
\* lock is held only by a handler inside the section that took it, so it is
\* released on every way out, the authorizer error and NotAuthorized
\* included; and with every enabled handler step eventually taken, every
\* publish, subscribe, unsubscribe and closed call that started completes.
C21_NoDeadlock ==
    /\ [](\A t \in Tasks :
             /\ ~(HoldsCache(t) /\ HoldsRegistry(t))
             /\ HoldsCache(t) <=> pc[t] = "authorize"
             /\ HoldsRegistry(t)
                <=> pc[t] \in {"sub_new", "sub_insert", "unsub_loop",
                               "unsub_close", "closed_close"}
             /\ Free(t) => ~HoldsCache(t) /\ ~HoldsRegistry(t))
    /\ [](cache_lock \in Tasks \cup {0} /\ reader_lock \in Tasks \cup {0})
    /\ \A t \in Tasks : (~Free(t)) ~> Free(t)

\* C21 witness: one handler holds the cache lock across its authorizer call
\* while another holds the registry lock inside InboxSubscription::new.
C21_Witness ==
    \E t, u \in Tasks :
        /\ pc[t] = "authorize" /\ HoldsCache(t)
        /\ pc[u] = "sub_new" /\ HoldsRegistry(u)

\* C22 as stated: the number of live relays equals the number of registered
\* topic filter strings in every state.
C22_RelaysEqualKeysAlways ==
    Cardinality(Running) = Cardinality(DOMAIN inbox_reader)

\* C22 amended: the registry is keyed by the topic filter string.  A
\* subscribe whose string is not registered creates a relay also when another
\* string of the same command filter is registered; the relays of
\* command/inbox/# and command/inbox/+/# are two, both of the wildcard filter;
\* an unsubscribe removes the entry of its own string and stops that relay
\* only; and whenever the registry lock is free the live relays are as many
\* as the registered strings, one for each.
C22_KeyedByString ==
    /\ [](reader_lock = 0
          => /\ Cardinality(Running) = Cardinality(DOMAIN inbox_reader)
             /\ RelayIds(inbox_reader) = Running)
    /\ [](\A k \in DOMAIN inbox_reader : \A r \in Running :
             (inbox_reader[k] = r) => relays[r].key = k)
    /\ [](\A r \in Running :
             relays[r].key \in KeyTopics
             => relays[r].filter = FilterWildcard /\ ~relays[r].force_device)
    /\ [][\A t \in Tasks :
             (/\ pc[t] = "sub_lock" /\ pc'[t] # "sub_lock"
              /\ op[t].cur \notin DOMAIN inbox_reader)
             => pc'[t] = "sub_new"]_vars
    /\ [][\A t \in Tasks :
             (pc[t] = "sub_insert" /\ pc'[t] # "sub_insert")
             => /\ DOMAIN inbox_reader' = DOMAIN inbox_reader \cup {op[t].cur}
                /\ op[t].cur \notin DOMAIN inbox_reader
                /\ \A k \in DOMAIN inbox_reader :
                      inbox_reader'[k] = inbox_reader[k]]_vars
    /\ [][\A t \in Tasks :
             (pc[t] \in {"unsub_loop", "unsub_close"} /\ ev'.task = t)
             => LET k == ev'.topics[1]
                IN  /\ DOMAIN inbox_reader \ {k} \subseteq DOMAIN inbox_reader'
                    /\ \A j \in DOMAIN inbox_reader \ {k} :
                          /\ inbox_reader'[j] = inbox_reader[j]
                          /\ inbox_reader[j] \in Running
                             => inbox_reader[j] \in Running']_vars

\* C22 witness: after both wildcard strings were subscribed,
\* command/inbox/# was unsubscribed and its relay stopped, and the relay of
\* command/inbox/+/#, of the same wildcard filter, is still registered and live.
C22_Witness ==
    /\ ev.type = "unsub_closed" /\ ev.topics = <<TopicAll>>
    /\ ev.relay \notin Running
    /\ DOMAIN inbox_reader = {TopicPlus}
    /\ inbox_reader[TopicPlus] \in Running
    /\ relays[inbox_reader[TopicPlus]].filter = FilterWildcard
    /\ reader_lock = 0

====
